---- MODULE Spec2Model ----
(***************************************************************************)
(* A model of oidcendpoint's generic Endpoint (src/oidcendpoint/endpoint.py):*)
(* the header utility set_content_type, the three hook-chain runners,      *)
(* parse_request and do_response, called on one configured instance by a   *)
(* host that may run several calls at once.                                *)
(*                                                                         *)
(* A Message (a dict-like object) is a function from its keys to strings,  *)
(* a Python list is a sequence, a (name, value) header is a pair.          *)
(***************************************************************************)
EXTENDS Integers, Sequences, FiniteSets, TLC

\* ------------------------------------------------------------------ bounds

\* Longest post-parse hook chain an instance is configured with.
MaxChain == 2

\* Longest pre-construct and post-construct hook chain of an instance.
MaxConstructChain == 1

\* parse_request is not started once the event sink holds this many entries.
MaxEvents == 2

\* do_response is not handed the caller's header list once it is longer.
MaxHeaderLen == 4

\* Longest header list set_content_type is applied to on its own.
MaxLen == 3

\* ---------------------------------------------------------------- messages

EmptyMsg == [k \in {} |-> ""]

\* key in message
Has(m, k) == k \in DOMAIN m

\* message[key] = value
Put(m, k, v) == (k :> v) @@ m

\* -------------------------------------------------------- header utility

\* set_content_type hands back the list it was given (the same object), not
\* a new list, exactly when the pair is already in it.
returns_same_list(headers, content_type) ==
    \E i \in 1..Len(headers) : headers[i] = <<"Content-type", content_type>>

NotContentType(h) == h[1] # "Content-type"

\* set_content_type as it would be if the old Content-type entries were
\* not filtered out before the new pair is appended.
set_content_type_keeps_old(headers, content_type) ==
    IF returns_same_list(headers, content_type)
    THEN headers
    ELSE Append(headers, <<"Content-type", content_type>>)

set_content_type(headers, content_type) ==
    IF returns_same_list(headers, content_type)
    THEN headers
    ELSE Append(SelectSeq(headers, NotContentType),
                <<"Content-type", content_type>>)

OAUTH2_NOCACHE_HEADERS ==
    << <<"Pragma", "no-cache">>, <<"Cache-Control", "no-store">> >>

\* ------------------------------------------------------------ hook chains

\* Post-parse hooks an instance may be configured with.  add_access_token
\* sets a field on the request it is given and returns that same object;
\* as_new_request returns a new message built from the one it is given.
PostParseHooks == {"add_access_token", "as_new_request"}

PreConstructHooks == {"add_links"}

PostConstructHooks == {"to_error"}

post_parse_hook_returns_new(meth) == meth = "as_new_request"

post_parse_hook(meth, request, client_id) ==
    IF meth = "add_access_token"
    THEN Put(request, "access_token", "tok")
    ELSE Put(request, "scope", "openid")

pre_construct_hook(meth, response_args, request) ==
    Put(response_args, "links", "issuer")

post_construct_hook(meth, response, request) ==
    [error |-> "access_denied"]

\* All chains of at most n hooks drawn from a set.
Chains(hooks, n) == UNION {[1..k -> hooks] : k \in 0..n}

\* The loop of do_post_parse_request over self.post_parse_request[i..].
\* st.value is the value bound to the local name request, st.is_req tells
\* whether that value is still the object the caller passed in, st.req is
\* the content of the caller's object, st.log the invocations so far.
RECURSIVE post_parse_loop(_, _, _, _)
post_parse_loop(hooks, i, client_id, st) ==
    IF i > Len(hooks)
    THEN st
    ELSE LET meth == hooks[i]
             out  == post_parse_hook(meth, st.value, client_id)
             new  == post_parse_hook_returns_new(meth)
         IN  post_parse_loop(hooks, i + 1, client_id,
                 [value  |-> out,
                  is_req |-> st.is_req /\ ~new,
                  req    |-> IF st.is_req /\ ~new THEN out ELSE st.req,
                  log    |-> Append(st.log,
                                [meth      |-> meth,
                                 received  |-> st.value,
                                 client_id |-> client_id,
                                 returned  |-> out])])

do_post_parse_request(self, request, client_id) ==
    post_parse_loop(self.post_parse_request, 1, client_id,
        [value |-> request, is_req |-> TRUE, req |-> request, log |-> <<>>])

RECURSIVE pre_construct_loop(_, _, _, _)
pre_construct_loop(hooks, i, response_args, request) ==
    IF i > Len(hooks)
    THEN response_args
    ELSE pre_construct_loop(hooks, i + 1,
             pre_construct_hook(hooks[i], response_args, request), request)

do_pre_construct(self, response_args, request) ==
    pre_construct_loop(self.pre_construct, 1, response_args, request)

RECURSIVE post_construct_loop(_, _, _, _)
post_construct_loop(hooks, i, response_args, request) ==
    IF i > Len(hooks)
    THEN response_args
    ELSE post_construct_loop(hooks, i + 1,
             post_construct_hook(hooks[i], response_args, request), request)

do_post_construct(self, response_args, request) ==
    post_construct_loop(self.post_construct, 1, response_args, request)

\* ------------------------------------------------------------ the instance

\* Endpoint.__init__(keyjar, **kwargs) with the class attributes at the
\* values the class body gives them.
Endpoint(keyjar, kwargs) ==
    [keyjar             |-> keyjar,
     pre_construct      |-> <<>>,
     post_construct     |-> <<>>,
     post_parse_request |-> <<>>,
     kwargs             |-> kwargs,
     request_format     |-> "urlencoded",
     response_format    |-> "json",
     response_placement |-> "body",
     client_auth_method |-> ""]

DefaultEndpoint == Endpoint("KEYJAR", EmptyMsg)

ClientAuthMethods == {"", "bearer_header"}

RequestFormats == {"urlencoded", "json", "jwt", "url"}

ResponseFormats == {"json", "urlencoded"}

\* form_post stands for any value that is neither body nor url.
ResponsePlacements == {"body", "url", "form_post"}

\* The endpoint types that override what parse_request reads: the
\* authentication method with the post-parse hooks, or with the request
\* format.
ParseEndpoints ==
    {[DefaultEndpoint EXCEPT !.client_auth_method = m,
                             !.post_parse_request = c] :
        m \in ClientAuthMethods, c \in Chains(PostParseHooks, MaxChain)}
    \cup
    {[DefaultEndpoint EXCEPT !.request_format = f,
                             !.client_auth_method = m] :
        f \in RequestFormats, m \in ClientAuthMethods}

\* The endpoint types that override what do_response reads.
ResponseEndpoints ==
    {[DefaultEndpoint EXCEPT !.response_format = f,
                             !.response_placement = p,
                             !.pre_construct = a,
                             !.post_construct = b] :
        f \in ResponseFormats, p \in ResponsePlacements,
        a \in Chains(PreConstructHooks, MaxConstructChain),
        b \in Chains(PostConstructHooks, MaxConstructChain)}

\* The configured instances.
Endpoints == ParseEndpoints \cup ResponseEndpoints

\* ---------------------------------------------------------- parse_request

\* The raw requests a caller passes: None, a mapping, or a wire string
\* that decodes (in the format named by wire) to the message val.  The
\* empty string is the urlencoded form of the empty message.
RawRequests ==
    {[kind |-> "none", wire |-> "", val |-> EmptyMsg],
     [kind |-> "dict", wire |-> "", val |-> EmptyMsg],
     [kind |-> "dict", wire |-> "", val |-> [client_id |-> "client_1"]],
     [kind |-> "str", wire |-> "urlencoded", val |-> EmptyMsg],
     [kind |-> "str", wire |-> "urlencoded",
      val |-> [client_id |-> "client_1"]]}

\* What self.client_authentication does: it raises UnknownOrNoAuthnMethod
\* or returns the identity info.
AuthnOutcomes ==
    {[kind |-> "UnknownOrNoAuthnMethod", info |-> EmptyMsg],
     [kind |-> "info", info |-> [token |-> "tok"]],
     [kind |-> "info", info |-> [client_id |-> "client_2", token |-> "tok"]]}

\* What req.verify does: it returns (exc = "") or raises exc with a message.
VerifyOutcomes ==
    {[exc |-> "", detail |-> ""],
     [exc |-> "MissingRequiredAttribute", detail |-> "redirect_uri"],
     [exc |-> "MissingRequiredValue", detail |-> "response_type"],
     [exc |-> "ValueError", detail |-> "not allowed value"],
     [exc |-> "VerificationError", detail |-> "wrong issuer"]}

\* request_cls().deserialize(request, method)
deserialize(request, method) ==
    IF request.wire = method
    THEN [raised |-> "", req |-> request.val]
    ELSE [raised |-> "DecodeError", req |-> EmptyMsg]

\* The query component urlparse(request) gives: what a URL carries after
\* the question mark, and the empty string for a string that has none.
urlparse_query(request) ==
    IF request.wire = "url"
    THEN [kind |-> "str", wire |-> "urlencoded", val |-> request.val]
    ELSE [kind |-> "str", wire |-> "urlencoded", val |-> EmptyMsg]

\* bool(request): false for None, for the empty mapping and for the empty
\* string, true for every other mapping and string.
Truthy(request) ==
    IF request.kind = "none"
    THEN FALSE
    ELSE IF request.kind = "dict"
         THEN request.val # EmptyMsg
         ELSE ~(request.wire = "urlencoded" /\ request.val = EmptyMsg)

parse_request_decode(self, request) ==
    IF Truthy(request)
    THEN IF request.kind = "dict"
         THEN [raised |-> "", req |-> request.val]
         ELSE IF self.request_format = "jwt"
              THEN deserialize(request, "jwt")
              ELSE IF self.request_format = "url"
                   THEN deserialize(urlparse_query(request), "urlencoded")
                   ELSE deserialize(request, self.request_format)
    ELSE [raised |-> "", req |-> EmptyMsg]

\* parse_request_authn as it would be if a missing authentication method
\* were tolerated whatever client_auth_method says.
parse_request_authn_tolerant(self, req, authn) ==
    IF authn.kind = "UnknownOrNoAuthnMethod"
    THEN [raised |-> "", req |-> req, client_id |-> ""]
    ELSE IF Has(authn.info, "client_id")
         THEN [raised |-> "",
               req |-> Put(req, "client_id", authn.info["client_id"]),
               client_id |-> authn.info["client_id"]]
         ELSE [raised |-> "", req |-> req,
               client_id |-> IF Has(req, "client_id")
                             THEN req["client_id"] ELSE ""]

\* parse_request_authn as it would be if the authenticated client id were
\* kept in _client_id only and not written into the request.
parse_request_authn_no_write(self, req, authn) ==
    IF authn.kind = "UnknownOrNoAuthnMethod"
    THEN IF self.client_auth_method = ""
         THEN [raised |-> "", req |-> req, client_id |-> ""]
         ELSE [raised |-> "UnAuthorizedClient", req |-> req, client_id |-> ""]
    ELSE IF Has(authn.info, "client_id")
         THEN [raised |-> "", req |-> req,
               client_id |-> authn.info["client_id"]]
         ELSE [raised |-> "", req |-> req,
               client_id |-> IF Has(req, "client_id")
                             THEN req["client_id"] ELSE ""]

\* "Verify that the client is allowed to do this": the request as it
\* leaves the step, the resolved _client_id and what was raised.
parse_request_authn(self, req, authn) ==
    IF authn.kind = "UnknownOrNoAuthnMethod"
    THEN IF self.client_auth_method = ""
         THEN [raised |-> "", req |-> req, client_id |-> ""]
         ELSE [raised |-> "UnAuthorizedClient", req |-> req, client_id |-> ""]
    ELSE IF Has(authn.info, "client_id")
         THEN [raised |-> "",
               req |-> Put(req, "client_id", authn.info["client_id"]),
               client_id |-> authn.info["client_id"]]
         ELSE [raised |-> "", req |-> req,
               client_id |-> IF Has(req, "client_id")
                             THEN req["client_id"] ELSE ""]

\* parse_request_verify as it would be if ValueError were left out of the
\* except clause.
parse_request_verify_narrow(vfy) ==
    IF vfy.exc = ""
    THEN [kind |-> "ok", response |-> EmptyMsg, exc |-> ""]
    ELSE IF vfy.exc \in {"MissingRequiredAttribute", "MissingRequiredValue"}
         THEN [kind |-> "error",
               response |-> [error |-> "invalid_request",
                             error_description |-> vfy.detail],
               exc |-> ""]
         ELSE [kind |-> "raise", response |-> EmptyMsg, exc |-> vfy.exc]

\* "verify that the request message is correct"
parse_request_verify(vfy) ==
    IF vfy.exc = ""
    THEN [kind |-> "ok", response |-> EmptyMsg, exc |-> ""]
    ELSE IF vfy.exc \in {"MissingRequiredAttribute", "ValueError",
                         "MissingRequiredValue"}
         THEN [kind |-> "error",
               response |-> [error |-> "invalid_request",
                             error_description |-> vfy.detail],
               exc |-> ""]
         ELSE [kind |-> "raise", response |-> EmptyMsg, exc |-> vfy.exc]

\* What one call of parse_request did.  outcome is return or raise; ret the
\* returned value; authn_called whether self.client_authentication was
\* reached and decoded the request it was handed; opponent_id and
\* req_verified what verify was handed; stored whether the raw request went
\* to the event sink; log the hook invocations; chain_value what
\* do_post_parse_request returned.
ParseResult(outcome, exc, ret, cid, called, req, stored, log, chain) ==
    [outcome       |-> outcome,
     exc           |-> exc,
     ret           |-> ret,
     client_id     |-> cid,
     authn_called  |-> TRUE,
     decoded       |-> EmptyMsg,
     verify_called |-> called,
     opponent_id   |-> IF called THEN cid ELSE "",
     keyjar        |-> "",
     req_verified  |-> req,
     stored        |-> stored,
     log           |-> log,
     chain_value   |-> chain]

parse_request(self, endpoint_context, request, authn, vfy) ==
    LET d == parse_request_decode(self, request)
        a == parse_request_authn(self, d.req, authn)
        v == parse_request_verify(vfy)
        h == do_post_parse_request(self, a.req, a.client_id)
    IN  IF d.raised # ""
        THEN [ParseResult("raise", d.raised, EmptyMsg, "", FALSE, EmptyMsg,
                          FALSE, <<>>, EmptyMsg)
                 EXCEPT !.authn_called = FALSE]
        ELSE IF a.raised # ""
        THEN [ParseResult("raise", a.raised, EmptyMsg, "", FALSE, EmptyMsg,
                          FALSE, <<>>, EmptyMsg)
                 EXCEPT !.decoded = d.req]
        ELSE IF v.kind = "raise"
        THEN [ParseResult("raise", v.exc, EmptyMsg, a.client_id, TRUE, a.req,
                          FALSE, <<>>, EmptyMsg)
                 EXCEPT !.decoded = d.req, !.keyjar = self.keyjar]
        ELSE IF v.kind = "error"
        THEN [ParseResult("return", "", v.response, a.client_id, TRUE, a.req,
                          FALSE, <<>>, EmptyMsg)
                 EXCEPT !.decoded = d.req, !.keyjar = self.keyjar]
        ELSE [ParseResult("return", "", h.req, a.client_id, TRUE, a.req,
                          endpoint_context.events_configured, h.log, h.value)
                 EXCEPT !.decoded = d.req, !.keyjar = self.keyjar]

\* ------------------------------------------------------------ do_response

\* The response arguments a caller passes; None stands for the default.
ResponseArgs ==
    {[kind |-> "None", val |-> EmptyMsg],
     [kind |-> "dict", val |-> [subject |-> "acct:foo@example.com"]],
     [kind |-> "dict", val |-> [error |-> "invalid_request"]]}

\* The keyword arguments a caller passes.  http_headers, when given, is the
\* caller's header list (the object itself, not a copy).
Kwargs ==
    {EmptyMsg,
     [http_headers |-> "caller"],
     [return_uri |-> "https://rp.example/cb"],
     [return_uri |-> "https://rp.example/cb", fragment_enc |-> "True"],
     [return_uri |-> "https://rp.example/cb", http_headers |-> "caller"]}

\* Message.to_json()
to_json(msg) == [json |-> msg]

\* Message.to_urlencoded()
to_urlencoded(msg) == [urlencoded |-> msg]

\* Message.request(location, fragment_enc)
request_url(msg, location, fragment_enc) ==
    IF fragment_enc
    THEN [location |-> location, fragment |-> msg]
    ELSE [location |-> location, query |-> msg]

\* self.response_cls(**response_args)
response_cls(response_args) == response_args

construct(self, response_args, request) ==
    do_post_construct(self,
        response_cls(do_pre_construct(self, response_args, request)),
        request)

response_info(self, response_args, request) ==
    construct(self, response_args, request)

\* do_response_placement as it would be if every placement other than body
\* were handled as url, with no final else.
do_response_placement_lenient(self, response, kwargs) ==
    IF self.response_placement = "body"
    THEN IF self.response_format = "json"
         THEN [raised |-> "", content_type |-> "application/json",
               resp |-> to_json(response)]
         ELSE [raised |-> "",
               content_type |-> "application/x-www-form-urlencoded",
               resp |-> to_urlencoded(response)]
    ELSE IF ~Has(kwargs, "return_uri")
         THEN [raised |-> "KeyError", content_type |-> "",
               resp |-> EmptyMsg]
         ELSE [raised |-> "", content_type |-> "",
               resp |-> request_url(response, kwargs["return_uri"],
                           Has(kwargs, "fragment_enc")
                           /\ kwargs["fragment_enc"] = "True")]

\* The dispatch on response_placement and response_format: the serialized
\* response and the content type, or what was raised.
do_response_placement(self, response, kwargs) ==
    IF self.response_placement = "body"
    THEN IF self.response_format = "json"
         THEN [raised |-> "", content_type |-> "application/json",
               resp |-> to_json(response)]
         ELSE [raised |-> "",
               content_type |-> "application/x-www-form-urlencoded",
               resp |-> to_urlencoded(response)]
    ELSE IF self.response_placement = "url"
         THEN IF ~Has(kwargs, "return_uri")
              THEN [raised |-> "KeyError", content_type |-> "",
                    resp |-> EmptyMsg]
              ELSE [raised |-> "", content_type |-> "",
                    resp |-> request_url(response, kwargs["return_uri"],
                                Has(kwargs, "fragment_enc")
                                /\ kwargs["fragment_enc"] = "True")]
         ELSE [raised |-> "ValueError", content_type |-> "",
               resp |-> EmptyMsg]

\* The locals of a do_response call.  When aliased, the local name
\* http_headers is bound to the caller's list and headers is not used;
\* otherwise headers is the content of the call's own list.
Locals(pc, outcome, exc, ret, response, resp, aliased, headers) ==
    [pc       |-> pc,
     outcome  |-> outcome,
     exc      |-> exc,
     ret      |-> ret,
     response |-> response,
     resp     |-> resp,
     aliased  |-> aliased,
     headers  |-> headers]

\* do_response up to the point where http_headers is bound.
do_response_begin(self, response_args, request, kwargs, caller_list) ==
    LET args     == IF response_args.kind = "None"
                    THEN EmptyMsg ELSE response_args.val
        response == response_info(self, args, request)
        p        == do_response_placement(self, response, kwargs)
    IN  IF Has(response, "error")
        THEN Locals("done", "return", "", response, response, EmptyMsg,
                    FALSE, <<>>)
        ELSE IF p.raised # ""
        THEN Locals("done", "raise", p.raised, EmptyMsg, response, EmptyMsg,
                    FALSE, <<>>)
        ELSE IF p.content_type = ""
        THEN Locals("extend", "", "", EmptyMsg, response, p.resp, FALSE, <<>>)
        ELSE IF ~Has(kwargs, "http_headers")
        THEN Locals("extend", "", "", EmptyMsg, response, p.resp, FALSE,
                    << <<"Content-type", p.content_type>> >>)
        ELSE IF returns_same_list(caller_list, p.content_type)
        THEN Locals("extend", "", "", EmptyMsg, response, p.resp, TRUE, <<>>)
        ELSE Locals("extend", "", "", EmptyMsg, response, p.resp, FALSE,
                    set_content_type(caller_list, p.content_type))

\* http_headers.extend(OAUTH2_NOCACHE_HEADERS) and the return: the locals
\* at the return and the caller's list after it.
do_response_finish(locals, caller_list) ==
    LET extended == (IF locals.aliased THEN caller_list ELSE locals.headers)
                    \o OAUTH2_NOCACHE_HEADERS
    IN  [locals |-> [locals EXCEPT
                        !.pc = "done",
                        !.outcome = "return",
                        !.headers = extended,
                        !.ret = [response |-> locals.resp,
                                 http_headers |-> extended]],
         caller_list |-> IF locals.aliased THEN extended ELSE caller_list]

\* do_response run from start to end with nothing in between.
do_response(self, response_args, request, kwargs, caller_list) ==
    LET b == do_response_begin(self, response_args, request, kwargs,
                               caller_list)
    IN  IF b.pc = "done" THEN b
        ELSE do_response_finish(b, caller_list).locals

\* --------------------------------------------------------------- the state

VARIABLES
    endpoint,          \* the Endpoint instance: its attributes
    constructed,       \* the instance as __init__ and configuration left it
    endpoint_context,  \* the shared context: its event sink
    caller_headers,    \* the content of the caller's header list
    call,              \* per calling thread: the call it is in or has ended
    workload,          \* the arguments the host's callers pass
    sct                \* set_content_type applied on its own

vars == <<endpoint, constructed, endpoint_context, caller_headers, call,
          workload, sct>>

Idle == [op |-> "none", pc |-> "idle"]

\* The header lists a caller owns when the host starts serving.
CallerLists ==
    {<<>>,
     << <<"Content-type", "application/json">> >>,
     << <<"X-Frame-Options", "DENY">>,
        <<"Content-type", "application/x-www-form-urlencoded">> >>}

NoSct == [pc |-> "unused", headers |-> <<>>, content_type |-> "",
          once |-> <<>>, twice |-> <<>>]

\* Every argument the model draws.
FullWorkload ==
    [requests      |-> RawRequests,
     authns        |-> AuthnOutcomes,
     vfys          |-> VerifyOutcomes,
     response_args |-> ResponseArgs,
     kwargs        |-> Kwargs]

InitWith(endpoints, threads, load) ==
    /\ endpoint \in endpoints
    /\ constructed = endpoint
    /\ endpoint_context \in
           [events_configured : BOOLEAN, events : {0}]
    /\ caller_headers \in CallerLists
    /\ call = [t \in threads |-> Idle]
    /\ workload = load
    /\ sct = NoSct

\* What the callers of an endpoint type that overrides the parse side
\* pass: every parse_request argument, and a default response with and
\* without the caller's header list.
ParseWorkload ==
    [FullWorkload EXCEPT
        !.response_args = {a \in ResponseArgs : a.kind = "None"},
        !.kwargs = {k \in Kwargs : ~Has(k, "return_uri")}]

\* What the callers of an endpoint type that overrides the response side
\* pass: every do_response argument, and a request that carries a client
\* id, is authenticated as another client and passes verification.
ResponseWorkload ==
    [FullWorkload EXCEPT
        !.requests = {r \in RawRequests :
                         r.kind = "dict" /\ r.val # EmptyMsg},
        !.authns = {a \in AuthnOutcomes : Has(a.info, "client_id")},
        !.vfys = {v \in VerifyOutcomes : v.exc = ""}]

\* One configured instance serving one call at a time: an instance of any
\* type, or the instance as constructed serving every argument.
Init ==
    \/ InitWith(ParseEndpoints, {"t1"}, ParseWorkload)
    \/ InitWith(ResponseEndpoints, {"t1"}, ResponseWorkload)
    \/ InitWith({DefaultEndpoint}, {"t1"}, FullWorkload)

\* ---------------------------------------------------------------- actions

Free(t) == call[t].pc \in {"idle", "done"}

\* A thread calls parse_request(endpoint_context, request, auth).
ParseRequest(t) ==
    /\ Free(t)
    /\ endpoint_context.events < MaxEvents
    /\ \E request \in workload.requests, authn \in workload.authns,
          vfy \in workload.vfys :
          LET r == parse_request(endpoint, endpoint_context, request,
                                 authn, vfy)
          IN  /\ call' = [call EXCEPT ![t] =
                     [op |-> "parse_request", pc |-> "done",
                      request |-> request, authn |-> authn, vfy |-> vfy,
                      result |-> r]]
              /\ endpoint_context' =
                     [endpoint_context EXCEPT !.events =
                         IF r.stored THEN @ + 1 ELSE @]
    /\ UNCHANGED <<endpoint, constructed, caller_headers, workload, sct>>

\* A thread calls do_response(endpoint_context, response_args, **kwargs)
\* and runs it until http_headers is bound.
DoResponse(t) ==
    /\ Free(t)
    /\ \E response_args \in workload.response_args,
          kwargs \in workload.kwargs :
          LET b == do_response_begin(endpoint, response_args, EmptyMsg,
                                     kwargs, caller_headers)
          IN  /\ Has(kwargs, "http_headers")
                     => Len(caller_headers) <= MaxHeaderLen
              /\ call' = [call EXCEPT ![t] =
                     [op |-> "do_response", pc |-> b.pc,
                      response_args |-> response_args, kwargs |-> kwargs,
                      headers_at_call |-> caller_headers,
                      locals |-> b]]
    /\ UNCHANGED <<endpoint, constructed, endpoint_context, caller_headers,
                   workload, sct>>

\* The thread's do_response extends http_headers and returns.
DoResponseReturn(t) ==
    /\ call[t].pc = "extend"
    /\ LET f == do_response_finish(call[t].locals, caller_headers)
       IN  /\ call' = [call EXCEPT ![t].pc = "done", ![t].locals = f.locals]
           /\ caller_headers' = f.caller_list
    /\ UNCHANGED <<endpoint, constructed, endpoint_context, workload, sct>>

ParseRequestCall == \E t \in DOMAIN call : ParseRequest(t)

DoResponseCall == \E t \in DOMAIN call : DoResponse(t)

DoResponseEnd == \E t \in DOMAIN call : DoResponseReturn(t)

Next ==
    \/ ParseRequestCall
    \/ DoResponseCall
    \/ DoResponseEnd

Spec == Init /\ [][Next]_vars

\* ------------------------------------------------------ concurrent calls

\* The arguments of the calls that run at once: a request that carries a
\* client id, every authentication outcome, a passing and a failing
\* verification, a plain and an error response, with and without the
\* caller's header list.
ConcurrentWorkload ==
    [requests      |-> {r \in RawRequests : r.kind = "dict" /\ r.val # EmptyMsg},
     authns        |-> AuthnOutcomes,
     vfys          |-> {v \in VerifyOutcomes : v.exc \in {"", "ValueError"}},
     response_args |-> {a \in ResponseArgs : a.kind = "dict"},
     kwargs        |-> {k \in Kwargs : ~Has(k, "return_uri")}]

\* The instance as constructed, serving two threads at once.
InitConcurrent == InitWith({DefaultEndpoint}, {"t1", "t2"}, ConcurrentWorkload)

SpecConcurrent == InitConcurrent /\ [][Next]_vars

\* ------------------------------------------- set_content_type on its own

ContentTypes == {"application/json", "application/x-www-form-urlencoded"}

HeaderPairs ==
    {<<"Content-type", c>> : c \in ContentTypes}
    \cup {<<"X-Frame-Options", "DENY">>, <<"Location", "https://rp.example/cb">>}

HeaderLists == Chains(HeaderPairs, MaxLen)

InitHeaders ==
    /\ endpoint = DefaultEndpoint
    /\ constructed = endpoint
    /\ endpoint_context = [events_configured |-> FALSE, events |-> 0]
    /\ caller_headers = <<>>
    /\ call = [t \in {} |-> Idle]
    /\ workload = FullWorkload
    /\ sct \in [pc : {"start"}, headers : HeaderLists,
                content_type : ContentTypes, once : {<<>>}, twice : {<<>>}]

\* set_content_type(headers, content_type)
SetContentType ==
    /\ sct.pc = "start"
    /\ sct' = [sct EXCEPT !.pc = "once",
                  !.once = set_content_type(sct.headers, sct.content_type)]
    /\ UNCHANGED <<endpoint, constructed, endpoint_context, caller_headers,
                   call, workload>>

\* set_content_type(result, content_type) on the result of the first call
SetContentTypeAgain ==
    /\ sct.pc = "once"
    /\ sct' = [sct EXCEPT !.pc = "twice",
                  !.twice = set_content_type(sct.once, sct.content_type)]
    /\ UNCHANGED <<endpoint, constructed, endpoint_context, caller_headers,
                   call, workload>>

NextHeaders ==
    \/ SetContentType
    \/ SetContentTypeAgain

SpecHeaders == InitHeaders /\ [][NextHeaders]_vars

\* ---------------------------------------------------------------- claims

Threads == DOMAIN call

Ended(t, op) == call[t].op = op /\ call[t].pc = "done"

\* How many entries of a header list are named name.
CountNamed(headers, name) ==
    Cardinality({i \in 1..Len(headers) : headers[i][1] = name})

\* How many entries of a header list equal the pair h.
CountPair(headers, h) ==
    Cardinality({i \in 1..Len(headers) : headers[i] = h})

\* C1: when the value response_info produced carries an error field,
\* do_response returns the mapping {response: that value}, which has no
\* http_headers key and holds the value unserialized.
C1_ErrorReturnedInResponseMapping ==
    \A t \in Threads :
        (Ended(t, "do_response") /\ Has(call[t].locals.response, "error"))
        => /\ call[t].locals.outcome = "return"
           /\ call[t].locals.ret = [response |-> call[t].locals.response]
           /\ ~Has(call[t].locals.ret, "http_headers")

\* C2: when verification succeeds the post-parse hooks run in their
\* configured order, each receiving what the previous one returned (the
\* first the verified request), and parse_request returns what the last
\* one returned (the verified request for an empty chain).
C2_ReturnsLastHookValue ==
    \A t \in Threads :
        (Ended(t, "parse_request") /\ call[t].result.verify_called
         /\ call[t].vfy.exc = "")
        => LET r     == call[t].result
               hooks == endpoint.post_parse_request
           IN  /\ r.outcome = "return"
               /\ Len(r.log) = Len(hooks)
               /\ \A i \in 1..Len(hooks) :
                      /\ r.log[i].meth = hooks[i]
                      /\ r.log[i].received =
                             IF i = 1 THEN r.req_verified
                             ELSE r.log[i - 1].returned
               /\ r.chain_value =
                      IF hooks = <<>> THEN r.req_verified
                      ELSE r.log[Len(hooks)].returned
               /\ r.ret = r.chain_value

\* C3: with an empty client_auth_method and the delegate signalling that no
\* authentication method was recognized, parse_request raises no
\* authorization failure, and when the request carries a client_id that
\* client_id is the opponent_id verification gets and the client id every
\* post-parse hook gets.
C3_NoMethodUsesRequestClientId ==
    \A t \in Threads :
        (Ended(t, "parse_request") /\ endpoint.client_auth_method = ""
         /\ call[t].result.authn_called
         /\ call[t].authn.kind = "UnknownOrNoAuthnMethod")
        => LET r == call[t].result
           IN  /\ r.exc # "UnAuthorizedClient"
               /\ r.verify_called
               /\ Has(r.req_verified, "client_id")
                  => /\ r.opponent_id = r.req_verified["client_id"]
                     /\ \A i \in 1..Len(r.log) :
                            r.log[i].client_id = r.req_verified["client_id"]

\* C4: with a non-empty client_auth_method and the delegate signalling that
\* no authentication method was recognized, parse_request raises
\* UnAuthorizedClient: nothing is returned, verify is not called, no event
\* is stored and no post-parse hook runs.
C4_NoMethodAbortsWhenRequired ==
    \A t \in Threads :
        (Ended(t, "parse_request") /\ endpoint.client_auth_method # ""
         /\ call[t].result.authn_called
         /\ call[t].authn.kind = "UnknownOrNoAuthnMethod")
        => LET r == call[t].result
           IN  /\ r.outcome = "raise"
               /\ r.exc = "UnAuthorizedClient"
               /\ r.ret = EmptyMsg
               /\ ~r.verify_called
               /\ ~r.stored
               /\ r.log = <<>>

\* A call under a required authentication method, with an event sink and a
\* post-parse hook configured, was refused for want of a method.
C4_Witness ==
    \E t \in Threads :
        /\ Ended(t, "parse_request")
        /\ endpoint.client_auth_method # ""
        /\ endpoint.post_parse_request # <<>>
        /\ endpoint_context.events_configured
        /\ call[t].authn.kind = "UnknownOrNoAuthnMethod"
        /\ call[t].vfy.exc = ""
        /\ call[t].result.exc = "UnAuthorizedClient"

\* C5: when the delegate returns identity info the resolved client id is
\* not made up.  If the info holds a client_id, it is the resolved id, it
\* is in the request verify gets (over any client_id the request came
\* with) and in the request parse_request returns; if the info holds none,
\* the request is left as decoded and the resolved id is its client_id, or
\* empty when it has none.
C5_ClientIdFromInfoOrRequest ==
    \A t \in Threads :
        (Ended(t, "parse_request") /\ call[t].result.authn_called
         /\ call[t].authn.kind = "info")
        => LET r    == call[t].result
               info == call[t].authn.info
               sent == r.decoded
           IN  /\ r.verify_called
               /\ r.opponent_id = r.client_id
               /\ \A i \in 1..Len(r.log) : r.log[i].client_id = r.client_id
               /\ IF Has(info, "client_id")
                  THEN /\ r.client_id = info["client_id"]
                       /\ Has(r.req_verified, "client_id")
                       /\ r.req_verified["client_id"] = info["client_id"]
                       /\ (r.outcome = "return" /\ call[t].vfy.exc = "")
                          => /\ Has(r.ret, "client_id")
                             /\ r.ret["client_id"] = info["client_id"]
                  ELSE /\ r.req_verified = sent
                       /\ r.client_id = IF Has(sent, "client_id")
                                        THEN sent["client_id"] ELSE ""

\* A request that came with client_1 was authenticated as client_2,
\* verified, and returned carrying client_2.
C5_Witness ==
    \E t \in Threads :
        /\ Ended(t, "parse_request")
        /\ call[t].authn.kind = "info"
        /\ Has(call[t].authn.info, "client_id")
        /\ Has(call[t].result.decoded, "client_id")
        /\ call[t].result.decoded["client_id"]
               # call[t].authn.info["client_id"]
        /\ endpoint.post_parse_request # <<>>
        /\ call[t].result.outcome = "return"
        /\ call[t].vfy.exc = ""
        /\ call[t].result.ret["client_id"] = "client_2"

\* C6: when verify raises MissingRequiredAttribute, MissingRequiredValue or
\* ValueError, parse_request raises nothing and returns an error response
\* with error invalid_request and the failure's message, which is not
\* empty, as error_description; no post-parse hook runs and no event is
\* stored.
C6_VerifyFailureBecomesInvalidRequest ==
    \A t \in Threads :
        (Ended(t, "parse_request") /\ call[t].result.verify_called
         /\ call[t].vfy.exc \in {"MissingRequiredAttribute",
                                 "MissingRequiredValue", "ValueError"})
        => LET r == call[t].result
           IN  /\ r.outcome = "return"
               /\ r.exc = ""
               /\ DOMAIN r.ret = {"error", "error_description"}
               /\ r.ret["error"] = "invalid_request"
               /\ r.ret["error_description"] = call[t].vfy.detail
               /\ r.ret["error_description"] # ""
               /\ r.log = <<>>
               /\ ~r.stored

\* With an event sink and a post-parse hook configured, a request whose
\* verification raised ValueError came back as an invalid_request error.
C6_Witness ==
    \E t \in Threads :
        /\ Ended(t, "parse_request")
        /\ call[t].vfy.exc = "ValueError"
        /\ endpoint.post_parse_request # <<>>
        /\ endpoint_context.events_configured
        /\ call[t].result.outcome = "return"
        /\ Has(call[t].result.ret, "error")

\* C7: under placement body a response without an error field comes back
\* serialized in the configured format with a header list holding one
\* Content-type entry, of the matching type, and each of the two no-cache
\* headers once.
C7_BodyResponseHeaders ==
    \A t \in Threads :
        (Ended(t, "do_response") /\ endpoint.response_placement = "body"
         /\ ~Has(call[t].locals.response, "error"))
        => LET l  == call[t].locals
               ct == IF endpoint.response_format = "json"
                     THEN "application/json"
                     ELSE "application/x-www-form-urlencoded"
           IN  /\ l.outcome = "return"
               /\ DOMAIN l.ret = {"response", "http_headers"}
               /\ l.ret["response"] =
                      IF endpoint.response_format = "json"
                      THEN to_json(l.response) ELSE to_urlencoded(l.response)
               /\ CountNamed(l.ret["http_headers"], "Content-type") = 1
               /\ CountPair(l.ret["http_headers"], <<"Content-type", ct>>) = 1
               /\ \A i \in 1..Len(OAUTH2_NOCACHE_HEADERS) :
                      CountPair(l.ret["http_headers"],
                                OAUTH2_NOCACHE_HEADERS[i]) = 1

\* What C8 says of one header list and content type, once
\* set_content_type has been applied and applied again: the second result
\* is the first, the first holds one entry named Content-type, with value
\* C, and the other entries of H in their order.
SetOnceProperties ==
    /\ sct.twice = sct.once
    /\ CountNamed(sct.once, "Content-type") = 1
    /\ CountPair(sct.once, <<"Content-type", sct.content_type>>) = 1
    /\ SelectSeq(sct.once, NotContentType) =
           SelectSeq(sct.headers, NotContentType)

\* C8 as stated: for every header list H and content type C,
\* set_content_type(H, C) applied again gives the same list, and
\* set_content_type(H, C) holds one entry named Content-type, with value C,
\* and the other entries of H in their order.
C8_AnyHeaderList ==
    sct.pc = "twice" => SetOnceProperties

\* C8 amended: the same, for every header list H that holds at most one
\* entry named Content-type.
C8_AtMostOneContentType ==
    (sct.pc = "twice" /\ CountNamed(sct.headers, "Content-type") <= 1)
    => SetOnceProperties

\* set_content_type was applied twice to a list that held another
\* Content-type entry between two other headers.
C8_Witness ==
    /\ sct.pc = "twice"
    /\ Len(sct.headers) = 3
    /\ sct.headers[2][1] = "Content-type"
    /\ sct.headers[2][2] # sct.content_type
    /\ CountNamed(sct.headers, "Content-type") = 1
    /\ sct.headers[1] # sct.headers[3]
    /\ sct.once # sct.headers

\* C9 as stated: with a response_placement that is neither body nor url
\* every do_response call raises the configuration fault.
C9_UnknownPlacementAlwaysRaises ==
    \A t \in Threads :
        (Ended(t, "do_response")
         /\ endpoint.response_placement \notin {"body", "url"})
        => /\ call[t].locals.outcome = "raise"
           /\ call[t].locals.exc = "ValueError"

\* C9 amended: with a response_placement that is neither body nor url,
\* every do_response call whose constructed response carries no error
\* field raises the configuration fault and returns nothing; a call whose
\* constructed response carries an error field returns and does not raise.
C9_UnknownPlacementRaisesUnlessError ==
    \A t \in Threads :
        (Ended(t, "do_response")
         /\ endpoint.response_placement \notin {"body", "url"})
        => IF Has(call[t].locals.response, "error")
           THEN /\ call[t].locals.outcome = "return"
                /\ call[t].locals.exc = ""
           ELSE /\ call[t].locals.outcome = "raise"
                /\ call[t].locals.exc = "ValueError"
                /\ call[t].locals.ret = EmptyMsg

\* Under an unknown placement a call with plain response arguments, handed
\* the caller's header list, raised ValueError.
C9_Witness ==
    \E t \in Threads :
        /\ Ended(t, "do_response")
        /\ endpoint.response_placement \notin {"body", "url"}
        /\ call[t].response_args.kind = "dict"
        /\ Has(call[t].kwargs, "http_headers")
        /\ ~Has(call[t].locals.response, "error")
        /\ call[t].locals.exc = "ValueError"

\* C10: no call writes to the instance, and every call that has ended,
\* whatever ran at the same time, ended as it does when run alone on the
\* arguments it was given.
C10_CallsDoNotInterfere ==
    /\ endpoint = constructed
    /\ \A t \in Threads :
           /\ Ended(t, "parse_request")
              => call[t].result =
                     parse_request(endpoint, endpoint_context,
                         call[t].request, call[t].authn, call[t].vfy)
           /\ Ended(t, "do_response")
              => call[t].locals =
                     do_response(endpoint, call[t].response_args, EmptyMsg,
                         call[t].kwargs, call[t].headers_at_call)

====
